---- MODULE Spec2Model ----
(***************************************************************************)
(* Msingi ESP32 firmware (solkem/edgechain, firmware/esp32-msingi).        *)
(* State machine of the device control loop (main.cpp), the BRACE          *)
(* enrollment client (brace_client.cpp), the RYLR896 AT-command driver     *)
(* (lora_comm.cpp) and the secure-element operations they use              *)
(* (secure_element.cpp).  Text on the serial channel is modelled as        *)
(* sequences of one-character strings, byte arrays as sequences of         *)
(* 0..255, and 32-bit unsigned integers as pairs of 16-bit limbs           *)
(* <<high, low>> so that their width is kept.                              *)
(***************************************************************************)
EXTENDS Integers, Sequences, FiniteSets, TLC

(***************************************************************************)
(* Bounds of the model                                                     *)
(***************************************************************************)
\* capacity of the modelled UART receive buffer, in lines
MaxRx == 2

\* the most milliseconds that pass between two reads of millis() in a wait
\* loop (the loop's task can be preempted between two polls)
MaxStep == 2

\* a wait loop is followed for at most this many milliseconds after its
\* window has elapsed
MaxOverrun == 4

(***************************************************************************)
(* Program constants                                                       *)
(***************************************************************************)
\* config.h:60
SENSOR_INTERVAL_MS == 30 * 60 * 1000
\* lora_comm.cpp:75, the RYLR896 maximum payload
MAX_PAYLOAD == 240
\* lora_comm.cpp:88, char response[64] in transmit
RESPONSE_SIZE == 64
\* main.cpp:154, uint8_t buffer[256] in handleIncomingMessage
RX_BUFFER_SIZE == 256
\* lora_comm.cpp:104, char rawResponse[512] in receive
RAW_SIZE == 512

\* lora_comm.h:84: the default timeout of waitForResponse
RESPONSE_TIMEOUT_MS == 2000

\* lora_comm.cpp:106: the window of receive
RECEIVE_WINDOW_MS == 1000
\* config.h:79
COMMITMENT_DOMAIN ==
  <<109, 115, 105, 110, 103, 105, 58, 99, 111, 109, 109, 105, 116, 109, 101,
    110, 116, 58, 118, 49>>
\* config.h:78
NULLIFIER_DOMAIN ==
  <<109, 115, 105, 110, 103, 105, 58, 110, 117, 108, 108, 105, 102, 105, 101,
    114, 58, 118, 49>>

(***************************************************************************)
(* Bytes, characters and 32-bit unsigned arithmetic                        *)
(***************************************************************************)
Min(a, b) == IF a < b THEN a ELSE b

\* n copies of the value x
Fill(n, x) == [i \in 1..n |-> x]

\* a zero-initialised byte array (objects with static storage duration)
Zeros(n) == Fill(n, 0)

\* the terminating character '\0' of a C string
NUL == "NUL"

\* uint32_t as <<high 16 bits, low 16 bits>>
U32(n) == <<(n \div 65536) % 65536, n % 65536>>

\* a - b in uint32_t arithmetic (modulo 2^32)
Sub32(a, b) ==
  LET lo == a[2] - b[2]
      borrow == IF lo < 0 THEN 1 ELSE 0
  IN  <<(a[1] - b[1] - borrow) % 65536, lo % 65536>>

\* a + n in uint32_t arithmetic (modulo 2^32), for 0 <= n < 65536
Add32(a, n) ==
  LET lo == a[2] + n
      carry == IF lo >= 65536 THEN 1 ELSE 0
  IN  <<(a[1] + carry) % 65536, lo % 65536>>

\* a >= b on uint32_t
Ge32(a, b) == a[1] > b[1] \/ (a[1] = b[1] /\ a[2] >= b[2])

\* (b1 << 24) | (b2 << 16) | (b3 << 8) | b4 as uint32_t
Be32(b1, b2, b3, b4) == <<b1 * 256 + b2, b3 * 256 + b4>>

\* the four bytes (e >> 24) & 0xFF, (e >> 16) & 0xFF, (e >> 8) & 0xFF, e & 0xFF
Be32Bytes(e) == <<e[1] \div 256, e[1] % 256, e[2] \div 256, e[2] % 256>>

\* the object representation of a uint32_t on the little-endian ESP32
Le32Bytes(e) == <<e[2] % 256, e[2] \div 256, e[1] % 256, e[1] \div 256>>

HexChars ==
  <<"0", "1", "2", "3", "4", "5", "6", "7", "8", "9", "A", "B", "C", "D", "E", "F">>

DecChars == <<"0", "1", "2", "3", "4", "5", "6", "7", "8", "9">>

\* the value of a hexadecimal digit as strtol(.., 16) reads it, -1 if none
HexVal(c) ==
  CASE c = "0" -> 0 [] c = "1" -> 1 [] c = "2" -> 2 [] c = "3" -> 3
    [] c = "4" -> 4 [] c = "5" -> 5 [] c = "6" -> 6 [] c = "7" -> 7
    [] c = "8" -> 8 [] c = "9" -> 9
    [] c \in {"A", "a"} -> 10 [] c \in {"B", "b"} -> 11
    [] c \in {"C", "c"} -> 12 [] c \in {"D", "d"} -> 13
    [] c \in {"E", "e"} -> 14 [] c \in {"F", "f"} -> 15
    [] OTHER -> -1

DecVal(c) == IF HexVal(c) \in 0..9 THEN HexVal(c) ELSE -1

IsSpace(c) == c \in {" ", "\t", "\n", "\r"}

\* printf("%d") / ("%zu") of a non-negative number
RECURSIVE Dec(_)
Dec(n) == IF n < 10 THEN <<DecChars[n + 1]>>
          ELSE Dec(n \div 10) \o <<DecChars[(n % 10) + 1]>>

\* sprintf("%02X", b)
Hex2(b) == <<HexChars[(b \div 16) + 1], HexChars[(b % 16) + 1]>>

\* lora_comm.cpp:78-82, the hex string of a payload: hexData[2i], hexData[2i+1]
\* hold the two digits of data[i]
HexEncode(data) ==
  [j \in 1..(2 * Len(data)) |-> Hex2(data[(j + 1) \div 2])[2 - (j % 2)]]

\* strstr(text, pat) != nullptr
Contains(text, pat) ==
  \E i \in 1..(Len(text) - Len(pat) + 1) : SubSeq(text, i, i + Len(pat) - 1) = pat

\* strncmp(text, pat, strlen(pat)) == 0
StartsWith(text, pat) ==
  Len(text) >= Len(pat) /\ SubSeq(text, 1, Len(pat)) = pat

\* atoi: white space, an optional sign, then decimal digits
RECURSIVE AtoiDigits(_, _, _)
AtoiDigits(s, p, acc) ==
  IF p <= Len(s) /\ DecVal(s[p]) >= 0
  THEN AtoiDigits(s, p + 1, acc * 10 + DecVal(s[p]))
  ELSE acc

RECURSIVE SkipSpace(_, _)
SkipSpace(s, p) == IF p <= Len(s) /\ IsSpace(s[p]) THEN SkipSpace(s, p + 1) ELSE p

atoi(s) ==
  LET p == SkipSpace(s, 1)
  IN  IF p <= Len(s) /\ s[p] = "-" THEN 0 - AtoiDigits(s, p + 1, 0)
      ELSE IF p <= Len(s) /\ s[p] = "+" THEN AtoiDigits(s, p + 1, 0)
      ELSE AtoiDigits(s, p, 0)

\* (uint8_t) strtol(hex, nullptr, 16) of the two-character string {c1, c2}
strtol16(c1, c2) ==
  LET v1 == HexVal(c1)
      v2 == HexVal(c2)
  IN  IF v1 >= 0 THEN (IF v2 >= 0 THEN v1 * 16 + v2 ELSE v1)
      ELSE IF IsSpace(c1) \/ c1 = "+" THEN (IF v2 >= 0 THEN v2 ELSE 0)
      ELSE IF c1 = "-" THEN (IF v2 >= 0 THEN (256 - v2) % 256 ELSE 0)
      ELSE 0

(***************************************************************************)
(* Secure element (ATECC608B) results.  The chip's SHA-256, MAC and ECDSA  *)
(* engines are external hardware; they are represented by deterministic    *)
(* mixing functions of their whole input.                                  *)
(***************************************************************************)
RECURSIVE MixRange(_, _, _)
MixRange(data, lo, hi) ==
  IF lo > hi THEN 0
  ELSE IF lo = hi THEN ((data[lo] + 1) * (lo * lo * 7 + lo * 13 + 1)) % 65521
  ELSE LET mid == (lo + hi) \div 2
       IN  (MixRange(data, lo, mid) + MixRange(data, mid + 1, hi)) % 65521

Mix(h, data) == (h * 4099 + Len(data) * 257 + MixRange(data, 1, Len(data))) % 65521

Spread(h, n) == [i \in 1..n |-> (h + (h \div 256) * i + i * i) % 256]

\* the digest atecc.sha256End delivers for `data`
Sha256Of(data) == Spread(Mix(7, data), 32)

\* the MAC atecc.macData leaves in macBuffer for `message` under the device key
MacOf(message) == Spread(Mix(11, message), 32)

\* the signature atecc.createSignature leaves for the digest `hash`
SignatureOf(hash) == Spread(Mix(13, hash), 64)

\* atecc.publicKey64Bytes of the device key in slot 0
DevicePublicKey == [i \in 1..64 |-> (3 * i + 5) % 256]

\* the 32-byte values the hardware RNG can deliver
RandomValues == {Fill(32, 17), Fill(32, 170)}

(***************************************************************************)
(* LoRaComm (lora_comm.cpp): text of the AT channel                        *)
(***************************************************************************)
CRLF == <<"\r", "\n">>

PLUS_OK == <<"+", "O", "K">>

RCV_PREFIX == <<"+", "R", "C", "V", "=">>

\* fault variant of SendCommandText: the length field counts bytes (C13)
SendCommandTextByteCount(length, hexData) ==
  <<"A", "T", "+", "S", "E", "N", "D", "=", "1", ",">> \o Dec(length)
    \o <<",">> \o hexData

\* lora_comm.cpp:86, the command "AT+SEND=1,%zu,%s" (println ends its line)
SendCommandText(length, hexData) ==
  <<"A", "T", "+", "S", "E", "N", "D", "=", "1", ",">> \o Dec(length * 2)
    \o <<",">> \o hexData

\* lora_comm.cpp:74-86: the command transmit builds for `data`
TransmitCommand(data) == SendCommandText(Len(data), HexEncode(data))

\* fault variant of TransmitAccepts: the limit tested with >= (C9)
TransmitAcceptsBelow(data) == ~(Len(data) >= MAX_PAYLOAD)

\* lora_comm.cpp:75: the payloads transmit accepts
TransmitAccepts(data) == ~(Len(data) > MAX_PAYLOAD)

\* lora_comm.cpp:93 after waitForResponse stored at most maxLen - 1 characters
ResponseAffirms(line) ==
  Contains(SubSeq(line, 1, Min(Len(line), RESPONSE_SIZE - 1)), PLUS_OK)

\* strtok(.., ","): skip delimiters, then the token up to the next delimiter
RECURSIVE SkipDelims(_, _)
SkipDelims(buf, p) ==
  IF p <= Len(buf) /\ buf[p] = "," THEN SkipDelims(buf, p + 1) ELSE p

\* the first delimiter at or after p, or the position of the string's '\0'
TokenEnd(buf, p) ==
  LET stops == { q \in p..Len(buf) : buf[q] = "," }
  IN  IF stops = {} THEN Len(buf) + 1
      ELSE CHOOSE q \in stops : \A r \in stops : q <= r

\* one strtok call scanning buf from position `from`; `end` is the position
\* of the delimiter it overwrites with '\0' (or of the string's own '\0')
strtok(buf, from) ==
  LET s == SkipDelims(buf, from)
      e == TokenEnd(buf, s)
  IN  IF s > Len(buf) THEN [found |-> FALSE, start |-> s, end |-> s, next |-> s]
      ELSE [found |-> TRUE, start |-> s, end |-> e,
            next |-> IF e <= Len(buf) THEN e + 1 ELSE e]

TokenText(buf, t) == SubSeq(buf, t.start, t.end - 1)

\* rawResponse[pos] while the hex token ends at hexEnd: the token's '\0', the
\* rest of the line, the line's '\0', and past it whatever the uninitialised
\* array holds (garbage)
RawAt(buf, pos, hexEnd, garbage) ==
  IF pos = hexEnd THEN NUL
  ELSE IF pos <= Len(buf) THEN buf[pos]
  ELSE IF pos = Len(buf) + 1 THEN NUL
  ELSE garbage

\* (size_t) atoi(token): a negative number becomes a huge unsigned one
SizeOfAtoi(n, maxLen) == IF n < 0 THEN 2 * maxLen + 2 ELSE n

\* fault variant of DecodeHex: the length field taken as a byte count (C12)
DecodeHexByteCount(buf, hexTok, dataLen, maxLen, garbage) ==
  LET count == Min(dataLen, maxLen)
  IN  [k \in 1..count |->
         strtol16(RawAt(buf, hexTok.start + 2 * (k - 1), hexTok.end, garbage),
                  RawAt(buf, hexTok.start + 2 * (k - 1) + 1, hexTok.end, garbage))]

\* lora_comm.cpp:132-136: the bytes the hex loop stores in buffer
DecodeHex(buf, hexTok, dataLen, maxLen, garbage) ==
  LET count == Min((dataLen + 1) \div 2, maxLen)
  IN  [k \in 1..count |->
         strtol16(RawAt(buf, hexTok.start + 2 * (k - 1), hexTok.end, garbage),
                  RawAt(buf, hexTok.start + 2 * (k - 1) + 1, hexTok.end, garbage))]

\* lora_comm.cpp:117-145: receive() once one line has been read into
\* rawResponse; `sig` is <<_rssi, _snr>> before the call
ParseReceived(line, maxLen, sig, garbage) ==
  LET buf   == SubSeq(line, 1, Min(Len(line), RAW_SIZE - 1))
      none  == [bytes |-> <<>>, sig |-> sig]
      tAddr == strtok(buf, Len(RCV_PREFIX) + 1)
      tLen  == strtok(buf, tAddr.next)
      tHex  == strtok(buf, tLen.next)
      tRssi == strtok(buf, tHex.next)
      tSnr  == strtok(buf, tRssi.next)
      dataLen == SizeOfAtoi(atoi(TokenText(buf, tLen)), maxLen)
      rssi  == IF tRssi.found THEN atoi(TokenText(buf, tRssi)) ELSE sig[1]
      snr   == IF tRssi.found /\ tSnr.found
               THEN atoi(TokenText(buf, tSnr)) ELSE sig[2]
  IN  IF ~StartsWith(buf, RCV_PREFIX) THEN none
      ELSE IF ~tAddr.found THEN none
      ELSE IF ~tLen.found THEN none
      ELSE IF ~tHex.found THEN none
      ELSE [bytes |-> DecodeHex(buf, tHex, dataLen, maxLen, garbage),
            sig |-> <<rssi, snr>>]

\* a receive notification as the RYLR896 prints it
RcvLine(addr, len, hexData, rssi, snr) ==
  RCV_PREFIX \o addr \o <<",">> \o len \o <<",">> \o hexData \o <<",">>
    \o rssi \o <<",">> \o snr \o CRLF

(***************************************************************************)
(* State                                                                   *)
(***************************************************************************)
VARIABLES
  deviceRegistered,  \* main.cpp:28
  currentEpoch,      \* main.cpp:29
  commitmentBytes,   \* main.cpp:30
  lastReading,       \* main.cpp:126, static local of loop()
  _registered,       \* brace_client.h:59
  _commitment,       \* brace_client.h:60
  _blindingFactor,   \* brace_client.h:61
  _rssi,             \* lora_comm.h:80
  _snr,              \* lora_comm.h:81
  pc,                \* where the single thread of control is
  clock,             \* the value millis() last returned to loop()
  rx,                \* lines waiting in the UART receive buffer of _serial
  owed,              \* the module has not answered the last command yet
  tx,                \* the command written to _serial in this iteration
  cycleKind,         \* what the scheduled cycle of this iteration ran
  sends,             \* AT+SEND commands written in this iteration
  sendResult,        \* what the transmit call of this iteration returned
  sendConfirmed,     \* the module's +OK for that command had reached rx
  ackAtStart,        \* a RegistrationAck was in rx when the iteration began
  pendingAck,        \* registerDevice() has returned true since boot
  ranCycle,          \* a scheduled cycle has run since boot
  locals,            \* start, timeout, idx and maxLen of the wait in progress
  cycleLog           \* the errors collectAndTransmitData reported on Serial
                     \* in this iteration before it reached transmit

vars ==
  <<deviceRegistered, currentEpoch, commitmentBytes, lastReading, _registered,
    _commitment, _blindingFactor, _rssi, _snr, pc, clock, rx, owed, tx,
    cycleKind, sends, sendResult, sendConfirmed, ackAtStart, pendingAck,
    ranCycle, locals, cycleLog>>

\* no wait loop is running
NoLocals == [start |-> U32(0), timeout |-> U32(0), idx |-> 0, maxLen |-> 0]

mainVars == <<deviceRegistered, currentEpoch, commitmentBytes, lastReading>>

clientVars == <<_registered, _commitment, _blindingFactor>>

radioVars == <<_rssi, _snr>>

\* what is recorded about the current iteration of loop()
iterVars == <<tx, cycleKind, sends, sendResult, sendConfirmed, ackAtStart>>

(***************************************************************************)
(* Environment: the radio module, the peer and the clock                   *)
(***************************************************************************)
\* the line the module prints when the peer sent `payload` the way this
\* firmware sends (AT+SEND=<addr>,<number of hex characters>,<HEX>)
PeerLine(payload) ==
  RcvLine(<<"1">>, Dec(2 * Len(payload)), HexEncode(payload),
          <<"-", "4", "0">>, <<"9">>)

\* application payloads the proof server sends while the device enrols: a
\* RegistrationAck and an EpochUpdate
EnrollmentPayloads == { <<1>>, <<2, 0, 0, 0, 5>> }

\* control messages of every kind but the RegistrationAck: EpochUpdates (a
\* low one, one with the top bit set, one that is a byte short), a
\* ProofConfirmation and an unknown discriminant
ControlPayloads ==
  { <<2, 0, 0, 0, 5>>, <<2, 128, 0, 0, 1>>, <<2, 0, 0, 0>>, <<3>>, <<7>> }

EnrollmentLines == { PeerLine(p) : p \in EnrollmentPayloads }

ControlLines == { PeerLine(p) : p \in ControlPayloads }

\* the module's answers to a command
ModuleResponses == { PLUS_OK \o CRLF, <<"+", "E", "R", "R", "=", "4">> \o CRLF }

\* values millis() is sampled at (uint32_t); the time between two iterations
\* of loop() is not bounded by the model
ClockSamples ==
  { U32(0), U32(100), U32(200), U32(100 + SENSOR_INTERVAL_MS) }

\* what an out-of-bounds read of rawResponse can deliver
GarbageChars == { NUL, "7" }

\* sensor readings as the object representation of the three floats
\* (21.3f, 55.0f, 40.0f) and an out-of-bounds one (60.0f, 55.0f, 0.0f)
SensorReadings ==
  { [temperature |-> <<102, 102, 170, 65>>, humidity |-> <<0, 0, 92, 66>>,
     soilMoisture |-> <<0, 0, 32, 66>>, valid |-> TRUE],
    [temperature |-> <<0, 0, 112, 66>>, humidity |-> <<0, 0, 92, 66>>,
     soilMoisture |-> <<0, 0, 0, 0>>, valid |-> FALSE] }

\* a line in the receive buffer; `answer` tells a response of the module to
\* the last command from a receive notification
Frame(text) == [text |-> text, answer |-> FALSE]

Response(text) == [text |-> text, answer |-> TRUE]

(***************************************************************************)
(* main.cpp: handleIncomingMessage                                         *)
(***************************************************************************)
\* fault variant of RegisteredAfter: an EpochUpdate clears the flag (C5)
RegisteredAfterReset(bytes, reg) ==
  IF Len(bytes) > 0 /\ bytes[1] = 1 THEN TRUE
  ELSE IF Len(bytes) > 0 /\ bytes[1] = 2 THEN FALSE
  ELSE reg

\* main.cpp:162-165 (and the other cases, which leave the flag alone)
RegisteredAfter(bytes, reg) ==
  IF Len(bytes) > 0 /\ bytes[1] = 1 THEN TRUE ELSE reg

\* fault variant of EpochAfter: only a higher epoch is taken (C8)
EpochAfterMonotonic(bytes, epoch) ==
  IF Len(bytes) > 0 /\ bytes[1] = 2 /\ Len(bytes) >= 5
     /\ ~Ge32(epoch, Be32(bytes[2], bytes[3], bytes[4], bytes[5]))
  THEN Be32(bytes[2], bytes[3], bytes[4], bytes[5])
  ELSE epoch

\* fault variant of EpochAfter: the epoch is taken from a frame of any type
\* that is long enough (C25)
EpochAfterAnyType(bytes, epoch) ==
  IF Len(bytes) >= 5
  THEN Be32(bytes[2], bytes[3], bytes[4], bytes[5])
  ELSE epoch

\* main.cpp:167-173
EpochAfter(bytes, epoch) ==
  IF Len(bytes) > 0 /\ bytes[1] = 2 /\ Len(bytes) >= 5
  THEN Be32(bytes[2], bytes[3], bytes[4], bytes[5])
  ELSE epoch

\* a line receive() would decode to a RegistrationAck payload
IsAckLine(text) ==
  \A g \in GarbageChars :
    LET b == ParseReceived(text, RX_BUFFER_SIZE, <<0, 0>>, g).bytes
    IN  Len(b) > 0 /\ b[1] = 1

(***************************************************************************)
(* main.cpp: loop scheduling                                               *)
(***************************************************************************)
\* main.cpp:135
CycleDue(now, last) ==
  Ge32(Sub32(now, last), U32(SENSOR_INTERVAL_MS)) \/ last = U32(0)

(***************************************************************************)
(* brace_client.cpp                                                        *)
(***************************************************************************)
\* brace_client.cpp:101-112
Preimage(publicKey, blindingFactor) ==
  [i \in 1..32 |-> IF i <= Len(COMMITMENT_DOMAIN) THEN COMMITMENT_DOMAIN[i] ELSE 0]
    \o publicKey \o blindingFactor

\* brace_client.cpp:92-128, the digest computeCommitment stores
CommitmentOf(publicKey, blindingFactor) ==
  Sha256Of(Preimage(publicKey, blindingFactor))

\* fault variant of RegistrationMessage: the discriminant byte is left out (C2)
RegistrationMessageUntagged(commitment) == commitment

\* brace_client.cpp:130-135
RegistrationMessage(commitment) == <<0>> \o commitment

\* how far registerDevice gets before it transmits
RegisterOutcomes == { "rngFail", "commitFail", "send" }

\* what secureElement.random(_blindingFactor, 32) leaves in _blindingFactor
\* (secure_element.cpp:154-174): nothing new when it fails
RandomResults(outcome, bf) == IF outcome = "rngFail" THEN {bf} ELSE RandomValues

\* fault variant of RegisterPrepare: a failed commitment step is ignored and
\* the request is sent all the same (C22)
RegisterPrepareSendsAnyway(outcome, rnd, bf, cm) ==
  LET bf1 == IF outcome = "rngFail" THEN bf ELSE rnd
      cm1 == IF outcome = "send" THEN CommitmentOf(DevicePublicKey, bf1) ELSE cm
  IN  [blindingFactor |-> bf1, commitment |-> cm1,
       reachesSend |-> outcome # "rngFail"]

\* brace_client.cpp:37-50: the client's fields after steps 1 and 2 of
\* registerDevice, and whether step 3 is reached
RegisterPrepare(outcome, rnd, bf, cm) ==
  LET bf1 == IF outcome = "rngFail" THEN bf ELSE rnd
      cm1 == IF outcome = "send" THEN CommitmentOf(DevicePublicKey, bf1) ELSE cm
  IN  [blindingFactor |-> bf1, commitment |-> cm1, reachesSend |-> outcome = "send"]

\* brace_client.cpp:61-65: the caller's buffer after getCommitment(buffer)
GetCommitment(reg, cm, buffer) == IF ~reg THEN buffer ELSE cm

\* brace_client.cpp:61-65: the value getCommitment returns
GetCommitmentOk(reg) == reg

(***************************************************************************)
(* secure_element.cpp and main.cpp: the telemetry packet                   *)
(***************************************************************************)
\* fault variant of NullifierMessage: the epoch in little-endian order (C15)
NullifierMessageLittleEndian(epoch) == NULLIFIER_DOMAIN \o Le32Bytes(epoch)

\* secure_element.cpp:128-140, the bytes handed to macData
NullifierMessage(epoch) == NULLIFIER_DOMAIN \o Be32Bytes(epoch)

\* secure_element.cpp:121-152
NullifierOf(epoch) == MacOf(NullifierMessage(epoch))

\* fault variant of PacketBody: the pressure reading is carried too (C16)
PacketBodyWithPressure(commitment, reading, timestamp, nullifier) ==
  commitment \o reading.temperature \o reading.humidity \o Zeros(4)
    \o reading.soilMoisture \o Le32Bytes(timestamp) \o nullifier

\* main.cpp:230-236 with sensors.h:25-33: the DataPacket image up to the
\* signature field
PacketBody(commitment, reading, timestamp, nullifier) ==
  commitment \o reading.temperature \o reading.humidity \o reading.soilMoisture
    \o Le32Bytes(timestamp) \o nullifier

\* secure_element.cpp:78-97
SignOf(data) == SignatureOf(Sha256Of(data))

\* fault variant of DataPacket: signed before the nullifier is copied in (C14)
DataPacketSignedEarly(commitment, reading, timestamp, epoch) ==
  PacketBody(commitment, reading, timestamp, NullifierOf(epoch))
    \o SignOf(PacketBody(commitment, reading, timestamp, Zeros(32)))

\* main.cpp:222-244: the DataPacket image handed to transmit
DataPacket(commitment, reading, timestamp, epoch) ==
  LET body == PacketBody(commitment, reading, timestamp, NullifierOf(epoch))
  IN  body \o SignOf(body)

\* how far collectAndTransmitData gets before it transmits
TelemetryOutcomes == { "macFail", "signFail", "send" }

\* main.cpp:213-215, 224-227, 240-243: what collectAndTransmitData reports on
\* Serial before it reaches transmit
TelemetryLog(outcome, readOk) ==
  (IF readOk THEN {} ELSE {"Sensor read error, using partial data"})
    \cup (IF outcome = "macFail" THEN {"Nullifier computation failed"}
          ELSE IF outcome = "signFail" THEN {"Packet signing failed"}
          ELSE {})

\* fault variant of TelemetryReaches: a failed sensor read ends the cycle
\* (C26)
TelemetryReachesIfValid(outcome, readOk) == outcome = "send" /\ readOk

\* main.cpp:213-243: whether collectAndTransmitData reaches transmit; readOk
\* is the result of sensors.readAll (sensors.cpp:83), which is only logged
TelemetryReaches(outcome, readOk) == outcome = "send"

(***************************************************************************)
(* lora_comm.cpp: the serial channel                                       *)
(***************************************************************************)
\* lora_comm.cpp:156-161: sendCommand empties the receive buffer, then writes
\* the command
SendCommand(cmd) ==
  /\ rx' = <<>>
  /\ tx' = cmd
  /\ owed' = TRUE

\* the module's +OK for the command last written is in the receive buffer
ConfirmationIn(buffer) ==
  \E i \in 1..Len(buffer) : buffer[i].answer /\ Contains(buffer[i].text, PLUS_OK)

\* lora_comm.cpp:74-94: transmit(data) up to the wait for the response; `rest`
\* is the receive buffer when transmit is called, `waitPc` where control
\* waits and `donePc` where it goes when the payload is rejected
Transmit(data, rest, waitPc, donePc) ==
  IF TransmitAccepts(data)
  THEN /\ \E cmd \in { TransmitCommand(data) } : SendCommand(cmd)
       /\ sends' = sends + 1
       /\ sendResult' = "none"
       /\ pc' = waitPc
  ELSE /\ sendResult' = "false"
       /\ pc' = donePc
       /\ rx' = rest
       /\ UNCHANGED <<tx, owed, sends>>

\* main.cpp:191-192 and brace_client.cpp:53-58: what the caller of transmit
\* does with its result
AfterTransmit(result) ==
  IF cycleKind = "register" /\ result
  THEN /\ pendingAck' = TRUE
       /\ commitmentBytes' = GetCommitment(_registered, _commitment, commitmentBytes)
  ELSE UNCHANGED <<pendingAck, commitmentBytes>>

\* where control goes when transmit returns
AfterWait(at) == IF at = "wait" THEN "done" ELSE "apiDone"

\* lora_comm.cpp:172-194 and 93: the first line that arrives ends the wait
WaitRead ==
  /\ pc \in {"wait", "apiWait"}
  /\ rx # <<>>
  /\ LET result == ResponseAffirms(Head(rx).text)
     IN  /\ sendResult' = IF result THEN "true" ELSE "false"
         /\ AfterTransmit(result)
  /\ sendConfirmed' = ConfirmationIn(rx)
  /\ rx' = Tail(rx)
  /\ pc' = AfterWait(pc)
  /\ UNCHANGED <<deviceRegistered, currentEpoch, lastReading, clientVars,
                 radioVars, clock, owed, tx, cycleKind, sends, ackAtStart,
                 ranCycle>>
  /\ UNCHANGED locals
  /\ UNCHANGED cycleLog

\* lora_comm.cpp:176 and 193: nothing arrived within the timeout
WaitTimeout ==
  /\ pc \in {"wait", "apiWait"}
  /\ rx = <<>>
  /\ sendResult' = "false"
  /\ pc' = AfterWait(pc)
  /\ UNCHANGED <<mainVars, clientVars, radioVars, clock, rx, owed, tx,
                 cycleKind, sends, sendConfirmed, ackAtStart, pendingAck,
                 ranCycle>>
  /\ UNCHANGED locals
  /\ UNCHANGED cycleLog

\* the module prints a receive notification (one of `lines`)
DeliverFrame(lines) ==
  /\ pc \notin {"done", "apiDone"}
  /\ Len(rx) < MaxRx
  /\ \E text \in lines : rx' = Append(rx, Frame(text))
  /\ UNCHANGED <<mainVars, clientVars, radioVars, pc, clock, owed, iterVars,
                 pendingAck, ranCycle>>
  /\ UNCHANGED locals
  /\ UNCHANGED cycleLog

\* the module answers the last command
ModuleAnswers ==
  /\ pc \notin {"done", "apiDone"}
  /\ owed
  /\ Len(rx) < MaxRx
  /\ \E text \in ModuleResponses : rx' = Append(rx, Response(text))
  /\ owed' = FALSE
  /\ UNCHANGED <<mainVars, clientVars, radioVars, pc, clock, iterVars,
                 pendingAck, ranCycle>>
  /\ UNCHANGED locals
  /\ UNCHANGED cycleLog

(***************************************************************************)
(* main.cpp: loop                                                          *)
(***************************************************************************)
\* main.cpp:130-132 with handleIncomingMessage (153-183) and receive
\* (lora_comm.cpp:100-146): what handling one inbound line leaves
Polled(garbage) ==
  IF rx # <<>>
  THEN LET got == ParseReceived(Head(rx).text, RX_BUFFER_SIZE, <<_rssi, _snr>>,
                                garbage)
       IN  [rest |-> Tail(rx), sig |-> got.sig,
            registered |-> RegisteredAfter(got.bytes, deviceRegistered),
            epoch |-> EpochAfter(got.bytes, currentEpoch)]
  ELSE [rest |-> rx, sig |-> <<_rssi, _snr>>, registered |-> deviceRegistered,
        epoch |-> currentEpoch]

\* the outcomes of the inbound check of this iteration
PollOutcomes == { Polled(g) : g \in GarbageChars }

\* a RegistrationAck line is waiting in the receive buffer
AckPending == \E i \in 1..Len(rx) : IsAckLine(rx[i].text)

\* main.cpp:127-132: the start of an iteration of loop() at millis() = now,
\* whose inbound check leaves p
Poll(now, p, ack) ==
  /\ now # clock
  /\ clock' = now
  /\ _rssi' = p.sig[1]
  /\ _snr' = p.sig[2]
  /\ deviceRegistered' = p.registered
  /\ currentEpoch' = p.epoch
  /\ ackAtStart' = ack

\* main.cpp:135: no cycle is due; 147: delay and return
IdleIteration(samples) ==
  /\ pc = "loop"
  /\ \E now \in samples :
       /\ ~CycleDue(now, lastReading)
       /\ \E p \in PollOutcomes, ack \in {AckPending} :
            /\ Poll(now, p, ack)
            /\ rx' = p.rest
  /\ pc' = "done"
  /\ UNCHANGED <<commitmentBytes, lastReading, clientVars, owed, tx, cycleKind,
                 sends, sendResult, sendConfirmed, pendingAck, ranCycle>>
  /\ UNCHANGED locals
  /\ UNCHANGED cycleLog

\* brace_client.cpp:37-59: registerDevice() up to the wait for the module's
\* response; `rest` is the receive buffer when it is called
RegisterDevice(rest, waitPc, donePc) ==
  \E outcome \in RegisterOutcomes :
    \E rnd \in RandomResults(outcome, _blindingFactor) :
      \E r \in { RegisterPrepare(outcome, rnd, _blindingFactor, _commitment) } :
        /\ _blindingFactor' = r.blindingFactor
        /\ _commitment' = r.commitment
        /\ IF r.reachesSend
           THEN Transmit(RegistrationMessage(r.commitment), rest, waitPc, donePc)
           ELSE /\ pc' = donePc
                /\ rx' = rest
                /\ UNCHANGED <<owed, tx, sends, sendResult>>

\* main.cpp:135-140 and 188-203
RegisterCycle(samples) ==
  /\ pc = "loop"
  /\ \E p \in PollOutcomes :
       /\ ~p.registered
       /\ { now \in samples : CycleDue(now, lastReading) } # {}
       /\ RegisterDevice(p.rest, "wait", "done")
       /\ \E ack \in {AckPending}, now \in samples :
            /\ CycleDue(now, lastReading)
            /\ Poll(now, p, ack)
            /\ lastReading' = now
  /\ ranCycle' = TRUE
  /\ cycleKind' = "register"
  /\ UNCHANGED <<commitmentBytes, _registered, sendConfirmed, pendingAck>>
  /\ UNCHANGED locals
  /\ UNCHANGED cycleLog

\* main.cpp:135-143 and 208-253
TelemetryCycle(samples) ==
  /\ pc = "loop"
  /\ \E p \in PollOutcomes :
       /\ p.registered
       /\ \E ack \in {AckPending}, now \in samples :
            /\ CycleDue(now, lastReading)
            /\ Poll(now, p, ack)
            /\ lastReading' = now
            /\ \E outcome \in TelemetryOutcomes, reading \in SensorReadings :
                 /\ cycleLog' = TelemetryLog(outcome, reading.valid)
                 /\ IF TelemetryReaches(outcome, reading.valid)
                    THEN \E image \in { DataPacket(commitmentBytes, reading,
                                                    now, p.epoch) } :
                           Transmit(image, p.rest, "wait", "done")
                    ELSE /\ pc' = "done"
                         /\ rx' = p.rest
                         /\ UNCHANGED <<owed, tx, sends, sendResult>>
  /\ ranCycle' = TRUE
  /\ cycleKind' = "telemetry"
  /\ UNCHANGED <<commitmentBytes, clientVars, sendConfirmed, pendingAck>>
  /\ UNCHANGED locals

\* what was recorded about an iteration or a call is forgotten
Forget ==
  /\ tx' = <<>>
  /\ cycleKind' = "none"
  /\ sends' = 0
  /\ sendResult' = "none"
  /\ sendConfirmed' = FALSE
  /\ ackAtStart' = FALSE
  /\ cycleLog' = {}

\* main.cpp:147-148: loop() returns
EndIteration ==
  /\ pc = "done"
  /\ pc' = "loop"
  /\ Forget
  /\ UNCHANGED <<mainVars, clientVars, radioVars, clock, rx, owed, pendingAck,
                 ranCycle>>
  /\ UNCHANGED locals

(***************************************************************************)
(* The driver and the client called directly, as a caller other than       *)
(* loop() may call them                                                    *)
(***************************************************************************)
\* payloads handed to transmit: empty, short, of the largest accepted length
\* and one byte longer
ApiPayloads ==
  { <<>>, <<10>>, <<0, 255, 171>>, Fill(MAX_PAYLOAD, 165),
    Fill(MAX_PAYLOAD + 1, 165) }

\* lora_comm.cpp:74-94: a call transmit(data, length)
ApiTransmitOf(data) ==
  /\ pc = "api"
  /\ Transmit(data, rx, "apiWait", "apiDone")
  /\ UNCHANGED <<mainVars, clientVars, radioVars, clock, cycleKind,
                 sendConfirmed, ackAtStart, pendingAck, ranCycle>>
  /\ UNCHANGED locals
  /\ UNCHANGED cycleLog

ApiTransmit(payloads) == \E data \in payloads : ApiTransmitOf(data)

\* main.cpp:188-203: a call attemptRegistration(), whatever the enrollment
\* state is
ApiRegister ==
  /\ pc = "api"
  /\ RegisterDevice(rx, "apiWait", "apiDone")
  /\ cycleKind' = "register"
  /\ UNCHANGED <<mainVars, _registered, radioVars, clock, sendConfirmed,
                 ackAtStart, pendingAck, ranCycle>>
  /\ UNCHANGED locals
  /\ UNCHANGED cycleLog

\* the call has returned
ApiReturn ==
  /\ pc = "apiDone"
  /\ pc' = "api"
  /\ Forget
  /\ UNCHANGED <<mainVars, clientVars, radioVars, clock, rx, owed, pendingAck,
                 ranCycle>>
  /\ UNCHANGED locals

\* main.cpp:153-183: a call handleIncomingMessage() while a line is waiting
ApiHandleIncoming ==
  /\ pc = "api"
  /\ rx # <<>>
  /\ \E p \in PollOutcomes :
       /\ deviceRegistered' = p.registered
       /\ currentEpoch' = p.epoch
       /\ _rssi' = p.sig[1]
       /\ _snr' = p.sig[2]
       /\ rx' = p.rest
  /\ pc' = "apiDone"
  /\ UNCHANGED <<commitmentBytes, lastReading, clientVars, clock, owed,
                 iterVars, pendingAck, ranCycle>>
  /\ UNCHANGED locals
  /\ UNCHANGED cycleLog

\* lora_comm.cpp:42,53,59,64,70: the AT commands of the configuration calls
AT_BAND == <<"A", "T", "+", "B", "A", "N", "D", "=">>

AT_PARAMETER == <<"A", "T", "+", "P", "A", "R", "A", "M", "E", "T", "E", "R", "=">>

AT_CRFOP_20 == <<"A", "T", "+", "C", "R", "F", "O", "P", "=", "2", "0">>

AT_NETWORKID == <<"A", "T", "+", "N", "E", "T", "W", "O", "R", "K", "I", "D", "=">>

AT_ADDRESS == <<"A", "T", "+", "A", "D", "D", "R", "E", "S", "S", "=">>
\* config.h:45,49,50: the arguments setup() passes to configure (main.cpp:86)
LORA_FREQUENCY == 868000000

LORA_SPREADING_FACTOR == 10

LORA_BANDWIDTH == 125

\* lora_comm.cpp:48-51
BwCode(bandwidth) ==
  IF bandwidth >= 500 THEN 2 ELSE IF bandwidth >= 250 THEN 1 ELSE 0

\* lora_comm.cpp:42-59: the commands configure writes, in order
ConfigureCommands(frequency, spreadingFactor, bandwidth) ==
  << AT_BAND \o Dec(frequency),
     AT_PARAMETER \o Dec(spreadingFactor) \o <<",">> \o Dec(BwCode(bandwidth))
       \o <<",">> \o Dec(1) \o <<",", "1", "2">>,
     AT_CRFOP_20 >>

\* lora_comm.cpp:64: the command setNetworkId writes
NetworkIdCommand(networkId) == AT_NETWORKID \o Dec(networkId)

\* lora_comm.cpp:70: the command setAddress writes
AddressCommand(address) == AT_ADDRESS \o Dec(address)

\* uint8_t and uint16_t arguments the setters are called with
NetworkIds == { 0, 7, 255 }

Addresses == { 0, 2, 65535 }

\* the commands the configuration call in progress writes
CommandsOf(kind) ==
  IF kind = "configure"
  THEN ConfigureCommands(LORA_FREQUENCY, LORA_SPREADING_FACTOR, LORA_BANDWIDTH)
  ELSE <<tx>>

\* lora_comm.cpp:38-43: a call configure(...) up to the wait for the response
\* to its first command
ApiConfigure ==
  /\ pc = "api"
  /\ \E cmds \in { CommandsOf("configure") } : SendCommand(cmds[1])
  /\ sends' = 1
  /\ cycleKind' = "configure"
  /\ pc' = "cfgWait"
  /\ UNCHANGED <<mainVars, clientVars, radioVars, clock, sendResult,
                 sendConfirmed, ackAtStart, pendingAck, ranCycle>>
  /\ UNCHANGED locals
  /\ UNCHANGED cycleLog

\* lora_comm.cpp:62-66: a call setNetworkId(networkId)
ApiSetNetworkId ==
  /\ pc = "api"
  /\ \E networkId \in NetworkIds : SendCommand(NetworkIdCommand(networkId))
  /\ sends' = 1
  /\ cycleKind' = "setNetworkId"
  /\ pc' = "cfgWait"
  /\ UNCHANGED <<mainVars, clientVars, radioVars, clock, sendResult,
                 sendConfirmed, ackAtStart, pendingAck, ranCycle>>
  /\ UNCHANGED locals
  /\ UNCHANGED cycleLog

\* lora_comm.cpp:68-72: a call setAddress(address)
ApiSetAddress ==
  /\ pc = "api"
  /\ \E address \in Addresses : SendCommand(AddressCommand(address))
  /\ sends' = 1
  /\ cycleKind' = "setAddress"
  /\ pc' = "cfgWait"
  /\ UNCHANGED <<mainVars, clientVars, radioVars, clock, sendResult,
                 sendConfirmed, ackAtStart, pendingAck, ranCycle>>
  /\ UNCHANGED locals
  /\ UNCHANGED cycleLog

\* lora_comm.cpp:43-59, 65, 71: sendCommand has returned to a configuration
\* call, which discards the result; configure writes its next command (the
\* flush of sendCommand empties the receive buffer), the setters and the
\* last command of configure return, and being void they hand the caller
\* nothing. `rest` is the receive buffer the wait leaves
ConfigContinue(rest) ==
  IF sends < Len(CommandsOf(cycleKind))
  THEN /\ SendCommand(CommandsOf(cycleKind)[sends + 1])
       /\ sends' = sends + 1
       /\ pc' = "cfgWait"
  ELSE /\ rx' = rest
       /\ pc' = "apiDone"
       /\ UNCHANGED <<tx, owed, sends>>

\* lora_comm.cpp:172-194 called with response = nullptr: the first line that
\* arrives ends the wait and is dropped
ConfigWaitRead ==
  /\ pc = "cfgWait"
  /\ rx # <<>>
  /\ sendConfirmed' = ConfirmationIn(rx)
  /\ ConfigContinue(Tail(rx))
  /\ UNCHANGED <<mainVars, clientVars, radioVars, clock, cycleKind,
                 sendResult, ackAtStart, pendingAck, ranCycle>>
  /\ UNCHANGED locals
  /\ UNCHANGED cycleLog

\* lora_comm.cpp:176: nothing arrived within the timeout
ConfigWaitTimeout ==
  /\ pc = "cfgWait"
  /\ rx = <<>>
  /\ ConfigContinue(rx)
  /\ UNCHANGED <<mainVars, clientVars, radioVars, clock, cycleKind,
                 sendResult, sendConfirmed, ackAtStart, pendingAck, ranCycle>>
  /\ UNCHANGED locals
  /\ UNCHANGED cycleLog

\* values of millis() when a wait is entered, within the last seconds before
\* the 32-bit counter rolls over: 1001 ms and 500 ms before
CallTimes == { <<65535, 65536 - 1001>>, <<65535, 65536 - 500>> }

\* what one poll of the UART yields in a wait loop: nothing, a character
\* that is not a line delimiter, or the line delimiter
UartPolls == { "none", "x", "\n" }

\* lora_comm.cpp:176: the loop condition of waitForResponse
WaitGoesOn(now, start, timeout) == ~Ge32(Sub32(now, start), timeout)

\* lora_comm.cpp:108: the loop condition of receive
ReceiveGoesOn(now, timeout, idx) == ~Ge32(now, timeout) /\ idx < RAW_SIZE - 1

\* lora_comm.cpp:172-174: waitForResponse is entered with a response buffer
\* of RESPONSE_SIZE bytes, or with none (maxLen = 0 stands for nullptr)
ApiWaitForResponse ==
  /\ pc = "api"
  /\ \E now \in CallTimes, maxLen \in {0, RESPONSE_SIZE} :
       /\ clock' = now
       /\ locals' = [start |-> now, timeout |-> U32(RESPONSE_TIMEOUT_MS),
                     idx |-> 0, maxLen |-> maxLen]
  /\ pc' = "waitLoop"
  /\ UNCHANGED <<mainVars, clientVars, radioVars, rx, owed, iterVars,
                 pendingAck, ranCycle>>
  /\ UNCHANGED cycleLog

\* lora_comm.cpp:176-193: one evaluation of the loop condition of
\* waitForResponse and the iteration or the return that follows
WaitLoop ==
  /\ pc = "waitLoop"
  /\ \E step \in 0..MaxStep, c \in UartPolls :
       \E now \in { Add32(clock, step) } :
         /\ clock' = now
         /\ IF WaitGoesOn(now, locals.start, locals.timeout) /\ c # "\n"
            THEN /\ pc' = "waitLoop"
                 /\ locals' = IF c = "x" /\ locals.idx < locals.maxLen - 1
                              THEN [locals EXCEPT !.idx = @ + 1]
                              ELSE locals
                 /\ UNCHANGED sendResult
            ELSE /\ pc' = "apiDone"
                 /\ locals' = NoLocals
                 /\ \E idx \in { IF WaitGoesOn(now, locals.start, locals.timeout)
                                    /\ locals.idx < locals.maxLen - 1
                                 THEN locals.idx + 1 ELSE locals.idx } :
                      sendResult' = IF idx > 0 THEN "true" ELSE "false"
  /\ UNCHANGED <<mainVars, clientVars, radioVars, rx, owed, tx, cycleKind,
                 sends, sendConfirmed, ackAtStart, pendingAck, ranCycle>>
  /\ UNCHANGED cycleLog

\* lora_comm.cpp:100-106: receive is entered while a character is waiting
ApiReceive ==
  /\ pc = "api"
  /\ \E now \in CallTimes :
       /\ clock' = now
       /\ locals' = [start |-> now, timeout |-> Add32(now, RECEIVE_WINDOW_MS),
                     idx |-> 0, maxLen |-> RAW_SIZE]
  /\ pc' = "rxLoop"
  /\ UNCHANGED <<mainVars, clientVars, radioVars, rx, owed, iterVars,
                 pendingAck, ranCycle>>
  /\ UNCHANGED cycleLog

\* lora_comm.cpp:108-118: one evaluation of the loop condition of receive and
\* the iteration or the return that follows; the characters read here never
\* begin with +RCV=, so the call returns 0 at line 118 and changes nothing
ReceiveLoop ==
  /\ pc = "rxLoop"
  /\ ~Ge32(Sub32(clock, locals.start), U32(RECEIVE_WINDOW_MS + MaxOverrun))
  /\ \E step \in 0..MaxStep, c \in UartPolls :
       \E now \in { Add32(clock, step) } :
         /\ clock' = now
         /\ IF ReceiveGoesOn(now, locals.timeout, locals.idx) /\ c # "\n"
            THEN /\ pc' = "rxLoop"
                 /\ locals' = IF c = "x" THEN [locals EXCEPT !.idx = @ + 1]
                              ELSE locals
            ELSE /\ pc' = "apiDone"
                 /\ locals' = NoLocals
  /\ UNCHANGED <<mainVars, clientVars, radioVars, rx, owed, iterVars,
                 pendingAck, ranCycle>>
  /\ UNCHANGED cycleLog

\* the notification the peer's module prints when this firmware's transmit
\* sent `data`: the length field and the hex text are those of the AT+SEND
\* command (lora_comm.cpp:86)
EchoLine(data) ==
  LET cmd == TransmitCommand(data)
  IN  RCV_PREFIX \o <<"1", ",">> \o SubSeq(cmd, 11, Len(cmd))
        \o <<",", "-", "7", "1", ",", "1", "2">> \o CRLF

\* payloads of the lengths 0, 1, 3 and 240 sent by a peer running this
\* firmware
EchoPayloads == { <<>>, <<10>>, <<0, 255, 171>>, Fill(MAX_PAYLOAD, 165) }

\* +RCV=1,2,0102,-40,9: a length field that counts payload bytes
ByteCountLine ==
  RcvLine(<<"1">>, <<"2">>, <<"0", "1", "0", "2">>, <<"-", "4", "0">>, <<"9">>)

\* +RCV=1,3,010,-40,9: hex data of odd length
OddHexLine ==
  RcvLine(<<"1">>, <<"3">>, <<"0", "1", "0">>, <<"-", "4", "0">>, <<"9">>)

\* +RCW=1,2,01,-40,9: a wrong prefix
WrongPrefixLine ==
  <<"+", "R", "C", "W", "=", "1", ",", "2", ",", "0", "1", ",", "-", "4", "0",
    ",", "9">> \o CRLF

\* +RCV=1,2: the line ends before the hex data
NoHexLine == RCV_PREFIX \o <<"1", ",", "2">> \o CRLF

\* +RCV=1,2,01: the line ends before RSSI and SNR
NoSignalLine == RCV_PREFIX \o <<"1", ",", "2", ",", "0", "1">> \o CRLF

\* +RCV=1,2,01,-40: the line ends before SNR
NoSnrLine ==
  RCV_PREFIX \o <<"1", ",", "2", ",", "0", "1", ",", "-", "4", "0">> \o CRLF

MalformedLines ==
  { OddHexLine, WrongPrefixLine, NoHexLine, NoSignalLine, NoSnrLine }

\* a ProofConfirmation frame (main.cpp:175) that carries four more bytes,
\* received at rssi -55 and snr 7
ProofConfirmationLine ==
  RcvLine(<<"1">>, Dec(10), HexEncode(<<3, 0, 0, 0, 9>>), <<"-", "5", "5">>,
          <<"7">>)

\* +RCV=1,8,01,-40,9: the length field announces more hex characters than
\* the data field holds
OverLengthLine ==
  RcvLine(<<"1">>, <<"8">>, <<"0", "1">>, <<"-", "4", "0">>, <<"9">>)

\* the lines the receive path is exercised with
ReceiveLines ==
  MalformedLines \cup { ByteCountLine } \cup { EchoLine(d) : d \in EchoPayloads }
    \cup { PeerLine(<<1, 2>>), PeerLine(<<2, 0, 0, 0, 5>>) }
    \cup { ProofConfirmationLine, OverLengthLine }

(***************************************************************************)
(* Boot: the state setup() leaves (main.cpp:99-115, brace_client.cpp:14-31)*)
(***************************************************************************)
\* brace_client.cpp:25-30: begin() registers the client when slot 1 answers
\* and the commitment can be computed; _blindingFactor is never loaded, so
\* it holds the zeros of static initialisation
BootOutcomes == { "noStoredFactor", "stored" }

\* the values setup() leaves in the variables
BootState(outcome) ==
  LET stored == outcome = "stored"
      cm == IF stored THEN CommitmentOf(DevicePublicKey, Zeros(32)) ELSE Zeros(32)
  IN  [_registered |-> stored,
       _blindingFactor |-> Zeros(32),
       _commitment |-> cm,
       deviceRegistered |-> stored,
       commitmentBytes |-> GetCommitment(stored, cm, Zeros(32))]

Boot(outcome) ==
  /\ _registered = BootState(outcome)._registered
  /\ _blindingFactor = BootState(outcome)._blindingFactor
  /\ _commitment = BootState(outcome)._commitment
  /\ deviceRegistered = BootState(outcome).deviceRegistered
  /\ commitmentBytes = BootState(outcome).commitmentBytes
  /\ currentEpoch = U32(0)
  /\ lastReading = U32(0)
  /\ _rssi = 0
  /\ _snr = 0
  /\ clock = U32(0)
  /\ rx = <<>>
  /\ owed = FALSE
  /\ tx = <<>>
  /\ cycleKind = "none"
  /\ sends = 0
  /\ sendResult = "none"
  /\ sendConfirmed = FALSE
  /\ ackAtStart = FALSE
  /\ pendingAck = FALSE
  /\ ranCycle = FALSE
  /\ locals = NoLocals
  /\ cycleLog = {}

Init == pc = "loop" /\ \E outcome \in BootOutcomes : Boot(outcome)

\* the device restarts (power cycle or reset): RAM is initialised again and
\* setup() runs; nothing the firmware wrote survives, and slot 1 of the
\* secure element answers as provisioned
Restart(outcome) ==
  /\ pc' = "loop"
  /\ \E boot \in { BootState(outcome) } :
       /\ _registered' = boot._registered
       /\ _blindingFactor' = boot._blindingFactor
       /\ _commitment' = boot._commitment
       /\ deviceRegistered' = boot.deviceRegistered
       /\ commitmentBytes' = boot.commitmentBytes
  /\ currentEpoch' = U32(0)
  /\ lastReading' = U32(0)
  /\ _rssi' = 0
  /\ _snr' = 0
  /\ clock' = U32(0)
  /\ rx' = <<>>
  /\ owed' = FALSE
  /\ Forget
  /\ pendingAck' = FALSE
  /\ ranCycle' = FALSE
  /\ locals' = NoLocals

Next ==
  \/ IdleIteration(ClockSamples)
  \/ RegisterCycle(ClockSamples)
  \/ TelemetryCycle(ClockSamples)
  \/ EndIteration
  \/ WaitRead
  \/ WaitTimeout
  \/ DeliverFrame(EnrollmentLines)
  \/ ModuleAnswers

Spec == Init /\ [][Next]_vars

\* the device while the peer sends control messages of every other kind
NextControl ==
  \/ IdleIteration(ClockSamples)
  \/ RegisterCycle(ClockSamples)
  \/ TelemetryCycle(ClockSamples)
  \/ EndIteration
  \/ WaitRead
  \/ WaitTimeout
  \/ DeliverFrame(ControlLines)
  \/ ModuleAnswers

SpecControl == Init /\ [][NextControl]_vars

\* the device across restarts
NextRestart ==
  \/ Next
  \/ \E outcome \in BootOutcomes : Restart(outcome)

SpecRestart == Init /\ [][NextRestart]_vars

\* the driver and the client under direct calls
InitApi == pc = "api" /\ \E outcome \in BootOutcomes : Boot(outcome)

NextApi ==
  \/ ApiTransmit(ApiPayloads)
  \/ ApiRegister
  \/ ApiReturn
  \/ WaitRead
  \/ WaitTimeout
  \/ DeliverFrame(EnrollmentLines)
  \/ ModuleAnswers

SpecApi == InitApi /\ [][NextApi]_vars

\* the receive path under direct calls
NextReceive ==
  \/ ApiHandleIncoming
  \/ ApiReturn
  \/ DeliverFrame(ReceiveLines)

SpecReceive == InitApi /\ [][NextReceive]_vars

\* the configuration calls of the driver
NextConfig ==
  \/ ApiConfigure
  \/ ApiSetNetworkId
  \/ ApiSetAddress
  \/ ConfigWaitRead
  \/ ConfigWaitTimeout
  \/ ApiReturn
  \/ DeliverFrame(EnrollmentLines)
  \/ ModuleAnswers

SpecConfig == InitApi /\ [][NextConfig]_vars

\* the wait loops of the driver, one clock read at a time
NextWait ==
  \/ ApiWaitForResponse
  \/ WaitLoop
  \/ ApiReceive
  \/ ReceiveLoop
  \/ ApiReturn

\* the wait loops do not read the enrollment state: one boot outcome
InitWait == pc = "api" /\ Boot("noStoredFactor")

SpecWait == InitWait /\ [][NextWait]_vars

(***************************************************************************)
(* Properties                                                              *)
(***************************************************************************)
\* a step that runs one iteration of loop() up to its return or its wait
IterationStep == pc = "loop" /\ pc' # "loop"

\* the line loop() is about to handle is the notification of `payload`
HeadIs(payload) == rx # <<>> /\ Head(rx).text = PeerLine(payload)

\* text is the uppercase hexadecimal form of data, two digits a byte
IsUpperHexOf(text, data) ==
  /\ Len(text) = 2 * Len(data)
  /\ \A j \in 1..Len(text) :
       text[j] \in {"0", "1", "2", "3", "4", "5", "6", "7", "8", "9",
                    "A", "B", "C", "D", "E", "F"}
  /\ \A i \in 1..Len(data) :
       HexVal(text[2 * i - 1]) * 16 + HexVal(text[2 * i]) = data[i]

\* cmd is AT+SEND=1,<2 x payload length>,<uppercase hex of payload>
IsSendCommand(cmd, payload) ==
  LET head == <<"A", "T", "+", "S", "E", "N", "D", "=", "1", ",">>
                \o Dec(2 * Len(payload)) \o <<",">>
  IN  /\ StartsWith(cmd, head)
      /\ IsUpperHexOf(SubSeq(cmd, Len(head) + 1, Len(cmd)), payload)

\* the payload length an AT+SEND=1,<n>,... command announces, in bytes
PayloadBytes(cmd) == atoi(SubSeq(cmd, 11, Len(cmd))) \div 2

\* C1: the device becomes Registered only if a registration request was
\* sent successfully before (PendingAck); a 0x01 frame handled while no
\* register() has succeeded in sending does not make it Registered.
C1_RegisteredOnlyAfterPendingAck ==
  [][(~deviceRegistered /\ deviceRegistered') => pendingAck]_vars

\* C2: for a device without a stored blinding factor a register cycle issues
\* exactly one send, of the 33 bytes 0x00 followed by the commitment; when
\* the send is confirmed the device is PendingAck and not yet Registered;
\* handling a frame whose first byte is 0x01 makes it Registered, and every
\* cycle of a Registered device is a telemetry cycle, not a registration.
C2_RegisterThenAck ==
  /\ [](cycleKind = "register" /\ sends > 0
          => /\ sends = 1
             /\ Len(_commitment) = 32
             /\ IsSendCommand(tx, <<0>> \o _commitment))
  /\ [](cycleKind = "register" /\ sendResult = "true"
          => pendingAck /\ ~deviceRegistered)
  /\ [][IterationStep /\ HeadIs(<<1>>)
          => deviceRegistered' /\ cycleKind' # "register"]_vars
  /\ [](deviceRegistered /\ cycleKind # "none" => cycleKind = "telemetry")

\* C2 witness: a device that booted without a stored factor, sent its
\* request, was acknowledged and now transmits telemetry
C2_Witness ==
  /\ ~_registered
  /\ pendingAck
  /\ deviceRegistered
  /\ cycleKind = "telemetry"
  /\ sends = 1

\* C3: the controller's registered flag and the client's isRegistered()
\* agree in every state, and once the device is Registered getCommitment()
\* succeeds and delivers the client's commitment.
C3_ClientFollowsController ==
  /\ deviceRegistered = _registered
  /\ deviceRegistered
       => /\ GetCommitmentOk(_registered)
          /\ GetCommitment(_registered, _commitment, Zeros(32)) = _commitment

\* C4: register() called while the device is Registered is a no-op: no new
\* blinding factor, the commitment unchanged, no radio command, and it
\* returns at once.
C4_RegisterWhileRegisteredIsNoOp ==
  [][(ApiRegister /\ deviceRegistered /\ _registered)
       => /\ _blindingFactor' = _blindingFactor
          /\ _commitment' = _commitment
          /\ tx' = tx
          /\ sends' = sends
          /\ pc' = "apiDone"]_vars

\* C5: once Registered the device never becomes unregistered and never runs
\* a registration again; telemetry is transmitted only in cycles of a
\* Registered device; a cycle sends at most once, a registration request
\* (33 bytes) in a register cycle or a DataPacket in a telemetry cycle.
C5_EnrollmentMovesForward ==
  /\ [][deviceRegistered => deviceRegistered' /\ cycleKind' # "register"]_vars
  /\ [](cycleKind = "telemetry" => deviceRegistered)
  /\ [](cycleKind = "register" => ~deviceRegistered)
  /\ [](/\ sends <= 1
        /\ sends = 1 => \/ cycleKind = "register" /\ PayloadBytes(tx) = 33
                        \/ cycleKind = "telemetry" /\ PayloadBytes(tx) = 144)

\* C5 witness: a Registered device whose telemetry transmission was confirmed
C5_Witness ==
  /\ deviceRegistered
  /\ cycleKind = "telemetry"
  /\ PayloadBytes(tx) = 144
  /\ sendResult = "true"

\* C6: when a RegistrationAck frame is pending in the receive channel at the
\* start of an iteration whose cycle is due, the cycle of that iteration
\* transmits telemetry and does not call register().
C6_PendingAckSeenByCycle ==
  (ackAtStart /\ cycleKind # "none") => cycleKind = "telemetry"

\* C7: an iteration runs a cycle if and only if no cycle has run yet or at
\* least SENSOR_INTERVAL_MS has elapsed (modulo 2^32) since the last cycle
\* started.
C7_CycleIffDue ==
  [][IterationStep
       => ((cycleKind' # "none")
             <=> (~ranCycle
                  \/ Ge32(Sub32(clock', lastReading), U32(SENSOR_INTERVAL_MS))))]_vars

\* C8: handling a frame whose first byte is 0x02 replaces the epoch with the
\* big-endian value of the 4 following bytes whatever the held epoch was,
\* and leaves the epoch unchanged when fewer than 4 bytes follow.
C8_EpochUpdate ==
  [][\A payload \in ControlPayloads :
       (IterationStep /\ HeadIs(payload) /\ payload[1] = 2)
         => currentEpoch' =
              IF Len(payload) - 1 >= 4
              THEN <<payload[2] * 256 + payload[3], payload[4] * 256 + payload[5]>>
              ELSE currentEpoch]_vars

\* C8 witness: the epoch 0x80000001 was taken from a frame, and an
\* EpochUpdate with the lower value 5 is the next line to handle
C8_Witness ==
  /\ currentEpoch = <<32768, 1>>
  /\ pc = "loop"
  /\ HeadIs(<<2, 0, 0, 0, 5>>)

\* C9: transmit of more than 240 bytes returns false and neither writes a
\* command nor flushes or reads the serial channel; transmit of 0..240 bytes
\* writes exactly one command AT+SEND=1,<2n>,<uppercase hex>.
C9_TransmitLimit ==
  [][\A data \in ApiPayloads :
       ApiTransmitOf(data)
         => IF Len(data) > 240
            THEN /\ sendResult' = "false"
                 /\ tx' = tx
                 /\ sends' = sends
                 /\ rx' = rx
                 /\ owed' = owed
            ELSE /\ sends' = sends + 1
                 /\ IsSendCommand(tx', data)]_vars

\* C9 witness: the command for a payload of exactly 240 bytes was written
C9_Witness ==
  /\ pc = "apiWait"
  /\ sends = 1
  /\ IsSendCommand(tx, Fill(240, 165))

\* C10: transmit returns true exactly when the module's response to that
\* command contained +OK, however receive notifications interleave with it.
C10_TrueIffConfirmed ==
  sendResult # "none" => ((sendResult = "true") <=> sendConfirmed)

\* what receive() returns for the line handleIncomingMessage is about to read
ReceivedBytes(garbage) ==
  ParseReceived(Head(rx).text, RX_BUFFER_SIZE, <<_rssi, _snr>>, garbage).bytes

\* C11: a malformed or incomplete line (wrong prefix, hex data of odd
\* length, missing hex data, RSSI or SNR) yields no frame: receive returns
\* zero bytes and no control message is dispatched from it.
C11_MalformedYieldsNoFrame ==
  [][(ApiHandleIncoming /\ Head(rx).text \in MalformedLines)
       => /\ \A g \in GarbageChars : ReceivedBytes(g) = <<>>
          /\ deviceRegistered' = deviceRegistered
          /\ currentEpoch' = currentEpoch]_vars

C13_HexRoundTrip ==
  [][\A data \in EchoPayloads :
       (ApiHandleIncoming /\ Head(rx).text = EchoLine(data))
         => \A g \in GarbageChars : ReceivedBytes(g) = data]_vars

\* C13 witness: an echoed line has been decoded and the echo of the 240-byte
\* payload is the next line to decode
C13_Witness ==
  /\ pc = "api"
  /\ _rssi = -71
  /\ rx # <<>>
  /\ Head(rx).text = EchoLine(Fill(MAX_PAYLOAD, 165))

\* the payload bytes an AT+SEND=1,<n>,<HEX> command carries
CommandPayload(cmd) ==
  LET from == TokenEnd(cmd, 11) + 1
  IN  [k \in 1..((Len(cmd) - from + 1) \div 2) |->
         HexVal(cmd[from + 2 * (k - 1)]) * 16 + HexVal(cmd[from + 2 * (k - 1) + 1])]

\* the signature field of a packet is the signature of every byte before it
IsSignedPacket(packet) ==
  /\ Len(packet) > 64
  /\ SubSeq(packet, Len(packet) - 63, Len(packet))
       = SignatureOf(Sha256Of(SubSeq(packet, 1, Len(packet) - 64)))

NullifierInput(epoch) ==
  NULLIFIER_DOMAIN
    \o <<epoch[1] \div 256, epoch[1] % 256, epoch[2] \div 256, epoch[2] % 256>>

\* the epochs the peers of the model announce, and the initial one
AnnouncedEpochs == { <<0, 0>>, <<0, 5>>, <<32768, 1>> }

\* C15: the nullifier field (bytes 49..80) of every transmitted telemetry
\* packet is MAC(deviceKey, "msingi:nullifier:v1" || big-endian epoch) for
\* the epoch held when the cycle runs; equal epochs give equal nullifiers
\* and different epochs different ones.
C15_NullifierOfHeldEpoch ==
  cycleKind = "telemetry" /\ sends = 1
    => \E nullifier \in { SubSeq(CommandPayload(tx), 49, 80) } :
         \A e \in AnnouncedEpochs :
           (e = currentEpoch) <=> (nullifier = MacOf(NullifierInput(e)))

\* C15 witness: a packet built under the accepted epoch 5 was confirmed
C15_Witness ==
  /\ cycleKind = "telemetry"
  /\ pc = "done"
  /\ sendResult = "true"
  /\ currentEpoch = <<0, 5>>
  /\ SubSeq(CommandPayload(tx), 49, 80) = MacOf(NullifierInput(<<0, 5>>))

\* the packet is laid out as commitment(32), temperature(4), humidity(4),
\* soilMoisture(4), timestamp(4), nullifier(32), signature(64), the signed
\* region being every byte before the signature field
HasPacketLayout(packet) ==
  /\ SubSeq(packet, 1, 32) = commitmentBytes
  /\ \E reading \in SensorReadings :
       SubSeq(packet, 33, 44)
         = reading.temperature \o reading.humidity \o reading.soilMoisture
  /\ SubSeq(packet, 49, 80) = MacOf(NullifierInput(currentEpoch))
  /\ SubSeq(packet, 81, Len(packet))
       = SignatureOf(Sha256Of(SubSeq(packet, 1, Len(packet) - 64)))

\* C16 as stated: the telemetry packet handed to the radio is exactly 168
\* bytes.
C16_PacketIs168Bytes ==
  cycleKind = "telemetry" /\ sends = 1 => Len(CommandPayload(tx)) = 168

\* C16 amended: the telemetry packet handed to the radio is exactly 144
\* bytes (32 + 4 + 4 + 4 + 4 + 32 + 64), laid out without padding in that
\* order, and the signed region is the 80 bytes before the signature field.
C16_PacketIs144Bytes ==
  cycleKind = "telemetry" /\ sends = 1
    => \E packet \in { CommandPayload(tx) } :
         /\ Len(packet) = 144
         /\ PayloadBytes(tx) = 144
         /\ HasPacketLayout(packet)

\* C16 witness: a device registered at boot has handed a 144-byte packet to
\* the radio
C16_Witness ==
  /\ _registered
  /\ cycleKind = "telemetry"
  /\ sends = 1
  /\ Len(CommandPayload(tx)) = 144

\* C17: when the device restarts after it generated a blinding factor and
\* sent its registration request, and the stored factor is found at boot,
\* the client starts Registered with the commitment it had before the
\* restart.
C17_RestartKeepsCommitment ==
  [][(Restart("stored") /\ pendingAck /\ _blindingFactor # Zeros(32))
       => /\ _registered'
          /\ deviceRegistered'
          /\ _commitment' = _commitment
          /\ commitmentBytes' = _commitment]_vars

\* C20: once a registration request has been sent, later register() calls
\* (retries on successive cycles before the acknowledgment arrives) keep the
\* blinding factor, and with it the commitment every request carries.
C20_BlindingFactorGeneratedOnce ==
  [][(cycleKind' = "register" /\ cycleKind = "none" /\ pendingAck
        /\ _blindingFactor # Zeros(32))
       => /\ _blindingFactor' = _blindingFactor
          /\ _commitment' = _commitment]_vars

\* C19: configure, setNetworkId and setAddress each write one command, and
\* when the call returns the caller has been told success if the response
\* read was affirmative and failure if it was not or none arrived.
C19_ConfigReportsOutcome ==
  [][(pc = "cfgWait" /\ pc' = "apiDone")
       => /\ sends' = 1
          /\ sendResult' = IF rx # <<>> /\ ResponseAffirms(Head(rx).text)
                           THEN "true" ELSE "false"]_vars

\* C18: a wait of the driver does not go on once its window has passed on the
\* millisecond clock: the response wait returns at the clock read that shows
\* 2000 ms or more since it began, and receive at the read that shows 1000 ms
\* or more since it was entered.
C18_WaitsEndWithTheirWindow ==
  [][/\ (pc = "waitLoop"
           /\ Ge32(Sub32(clock', locals.start), U32(RESPONSE_TIMEOUT_MS)))
        => pc' # "waitLoop"
     /\ (pc = "rxLoop"
           /\ Ge32(Sub32(clock', locals.start), U32(RECEIVE_WINDOW_MS)))
        => pc' # "rxLoop"]_vars

\* C21: whenever the client holds a computed commitment, it is the hash of
\* the padded domain tag, the public key and the blinding factor the client
\* holds at that moment.
C21_CommitmentOfHeldFactor ==
  _commitment # Zeros(32)
    => _commitment = CommitmentOf(DevicePublicKey, _blindingFactor)

\* a register cycle after which the client does not hold the commitment of
\* a freshly drawn blinding factor: register() failed at step 1 or step 2
RegisterFailedEarly ==
  /\ pc = "loop"
  /\ cycleKind' = "register"
  /\ \/ _blindingFactor' = Zeros(32)
     \/ _commitment' # CommitmentOf(DevicePublicKey, _blindingFactor')

\* C22: when register() fails at random generation, public-key retrieval or
\* hashing, it returns failure, no radio command is written, and the device
\* stays Unregistered.
C22_EarlyFailureSendsNothing ==
  [][RegisterFailedEarly
       => /\ sends' = 0
          /\ tx' = tx
          /\ owed' = owed
          /\ pc' = "done"
          /\ pendingAck' = pendingAck
          /\ commitmentBytes' = commitmentBytes
          /\ ~_registered'
          /\ ~deviceRegistered']_vars

\* a register cycle has just failed at the commitment step, after it drew a
\* blinding factor and before any commitment was computed
C22_Witness ==
  /\ cycleKind = "register"
  /\ pc = "done"
  /\ sends = 0
  /\ _blindingFactor # Zeros(32)
  /\ _commitment = Zeros(32)

\* C23: there is no in-cycle retry: an iteration writes at most one send
\* command, and once a cycle has run, whether it succeeded or failed, the
\* next cycle starts only when the interval has elapsed since it started.
C23_NoRetryBeforeInterval ==
  [][/\ sends' <= 1
     /\ (IterationStep /\ ranCycle /\ cycleKind' # "none")
          => Ge32(Sub32(clock', lastReading), U32(SENSOR_INTERVAL_MS))]_vars

\* C24: the held epoch never decreases: after a control message is handled
\* it is at least what it was before.
C24_EpochNeverDecreases ==
  [][Ge32(currentEpoch', currentEpoch)]_vars

\* the line handleIncomingMessage is about to read decodes to a frame whose
\* first byte is neither 0x01 nor 0x02
HeadIsInformational ==
  /\ rx # <<>>
  /\ \A g \in GarbageChars :
       /\ Len(ReceivedBytes(g)) > 0
       /\ ReceivedBytes(g)[1] \notin {1, 2}

\* C25: handling a ProofConfirmation frame or a frame of unrecognized type
\* leaves the registration flag, the held epoch, the stored commitment and
\* the cycle schedule unchanged.
C25_InformationalFramesChangeNothing ==
  [][(ApiHandleIncoming /\ HeadIsInformational)
       => /\ deviceRegistered' = deviceRegistered
          /\ currentEpoch' = currentEpoch
          /\ commitmentBytes' = commitmentBytes
          /\ lastReading' = lastReading
          /\ UNCHANGED clientVars]_vars

\* the ProofConfirmation frame has just been handled
C25_Witness ==
  /\ pc = "apiDone"
  /\ _rssi = -55
  /\ _snr = 7

\* the sensor fields of the packet the command `cmd` carries are those of a
\* reading that readAll reported as not valid
CarriesInvalidReading(cmd) ==
  \E reading \in SensorReadings :
    /\ ~reading.valid
    /\ SubSeq(CommandPayload(cmd), 33, 44)
         = reading.temperature \o reading.humidity \o reading.soilMoisture

\* C26: a telemetry cycle whose sensor read reported valid = false, and in
\* which neither the nullifier computation nor the signing failed, builds,
\* signs and transmits a packet with the values that reading holds.
C26_InvalidReadingStillSent ==
  [][(cycleKind' = "telemetry" /\ cycleKind = "none"
        /\ cycleLog' = {"Sensor read error, using partial data"})
       => /\ sends' = 1
          /\ pc' = "wait"
          /\ IsSignedPacket(CommandPayload(tx'))
          /\ CarriesInvalidReading(tx')]_vars

\* after a sensor read error a signed packet with the values of the reading
\* is on its way
C26_Witness ==
  /\ cycleKind = "telemetry"
  /\ cycleLog = {"Sensor read error, using partial data"}
  /\ pc = "wait"
  /\ sends = 1
  /\ CarriesInvalidReading(tx)

\* the receive notifications among the lines of a receive buffer, in order
InboundFrames(buffer) == SelectSeq(buffer, LAMBDA l : ~l.answer)

\* C27: no inbound frame is lost to command traffic: a receive notification
\* leaves the serial channel only as the line the inbound check of an
\* iteration parses, one per iteration; writing a command or waiting for its
\* response never removes one.
C27_NoFrameLostToCommands ==
  [][\E old \in { InboundFrames(rx) }, new \in { InboundFrames(rx') } :
       \/ Len(new) >= Len(old) /\ SubSeq(new, 1, Len(old)) = old
       \/ /\ IterationStep
          /\ ~Head(rx).answer
          /\ new = Tail(old)]_vars

\* C28: the commitment field of every transmitted telemetry packet is the
\* commitment the enrollment client computed (and sent in the registration
\* request, when the device registered through register()).
C28_PacketCarriesClientCommitment ==
  (cycleKind = "telemetry" /\ sends = 1)
    => SubSeq(CommandPayload(tx), 1, 32) = _commitment

\* the hex data field of a receive notification (its third field)
HexField(line) ==
  LET buf  == SubSeq(line, 1, Min(Len(line), RAW_SIZE - 1))
      tAddr == strtok(buf, Len(RCV_PREFIX) + 1)
      tLen  == strtok(buf, tAddr.next)
      tHex  == strtok(buf, tLen.next)
  IN  IF StartsWith(buf, RCV_PREFIX) /\ tAddr.found /\ tLen.found /\ tHex.found
      THEN TokenText(buf, tHex)
      ELSE <<>>

\* C29: whatever the length field says, receive returns no more bytes than
\* half the hex characters present in the line's data field, and no more
\* than the caller's buffer holds.
C29_BytesOnlyFromHexField ==
  [][ApiHandleIncoming
       => \A g \in GarbageChars :
            /\ 2 * Len(ReceivedBytes(g)) <= Len(HexField(Head(rx).text))
            /\ Len(ReceivedBytes(g)) <= RX_BUFFER_SIZE]_vars

====
